---- MODULE Spec2Model ----
(***************************************************************************)
(* Model of tools/validate_project_pk_sk_uniqueness.py: the end-to-end     *)
(* validator that creates three projects with a baseline each through the  *)
(* Finanzas API, reads the persisted records back from DynamoDB and        *)
(* reports PK/SK collisions; and of generate_phase5_docs.py: the           *)
(* placeholder images and the DOCX to PDF conversion of the documentation  *)
(* generator.                                                              *)
(*                                                                         *)
(* Strings that the program only compares or formats (identifiers, keys,   *)
(* warning texts) are TLA+ strings; strings that the program strips        *)
(* (environment values) are sequences of one-character strings.            *)
(***************************************************************************)
EXTENDS Integers, Sequences, FiniteSets, TLC

VARIABLES
    env,          \* os.environ restricted to the keys the script reads
    pc,           \* position of main()
    api_base,     \* main: api_base
    token,        \* main: token
    token_source, \* main: token_source
    idx,          \* main: loop variable of "for idx in range(1, 4)"
    project_id,   \* main: project_id of the running iteration
    baseline_id,  \* main: baseline_id of the running iteration
    resp,         \* the HTTP response held by the API helper that is running
    created,      \* main: created
    results,      \* main: results
    fetched,      \* history: the items each verification pass read
    calls,        \* history: the HTTP requests issued, in order
    store_reads,  \* history: number of DynamoDB requests issued
    output,       \* lines printed on stdout
    exit_code,    \* process exit status, NotExited while running
    abort_cause,  \* history: the exception that ended the run, if any
    tools,        \* generate_phase5_docs.py: what is installed and how it behaves
    disk,         \* generate_phase5_docs.py: the files under the repository root
    gen           \* generate_phase5_docs.py: position and locals of main()

vars == <<env, pc, api_base, token, token_source, idx, project_id,
          baseline_id, resp, created, results, fetched, calls, store_reads,
          output, exit_code, abort_cause, tools, disk, gen>>

\* The variables of the validator, which generate_phase5_docs.py never touches
validator_vars ==
    <<env, pc, api_base, token, token_source, idx, project_id, baseline_id,
      resp, created, results, fetched, calls, store_reads, output, exit_code,
      abort_cause>>

\* The variables of generate_phase5_docs.py, which the validator never touches
gen_vars == <<tools, disk, gen>>

-----------------------------------------------------------------------------
(* Bounds *)

\* Largest number of store reads in one run that deviate from the designed
\* layout (record present, embedded project_id equal to the owner).
MaxStoreFaults == 3

(* Program constants *)

\* for idx in range(1, 4)
N == 3

\* Python's None, as it is printed by an f-string
None == "None"

NotExited == -1

API_BASE_ENV_KEYS ==
    <<"FINZ_API_BASE", "VITE_API_BASE_URL", "DEV_API_URL", "API_BASE_URL">>

TOKEN_ENV_KEYS ==
    <<"FINZ_JWT", "FINZ_ID_TOKEN", "ID_TOKEN", "COGNITO_ID_TOKEN",
      "COGNITO_ACCESS_TOKEN", "ACCESS_TOKEN", "AUTH_TOKEN">>

SeqRange(s) == {s[i] : i \in 1..Len(s)}

EnvKeys == SeqRange(API_BASE_ENV_KEYS) \cup SeqRange(TOKEN_ENV_KEYS)

-----------------------------------------------------------------------------
(* Configuration resolution *)

RECURSIVE lstrip(_)
\* str.lstrip(): drop leading whitespace
lstrip(s) == IF s # <<>> /\ Head(s) = " " THEN lstrip(Tail(s)) ELSE s

RECURSIVE rstrip(_, _)
\* str.rstrip(c): drop every trailing c
rstrip(s, c) ==
    IF s # <<>> /\ s[Len(s)] = c THEN rstrip(SubSeq(s, 1, Len(s) - 1), c)
    ELSE s

strip_keep(s) == s

\* str.strip(): drop leading and trailing whitespace
strip(s) == rstrip(lstrip(s), " ")

RECURSIVE FirstNonEmpty(_, _, _)
\* for key in KEYS: value = os.getenv(key, "").strip(); if value: return ...
FirstNonEmpty(keys, e, i) ==
    IF i > Len(keys) THEN [ok |-> FALSE, value |-> <<>>, key |-> None]
    ELSE LET value == strip(e[keys[i]])
         IN  IF value # <<>> THEN [ok |-> TRUE, value |-> value, key |-> keys[i]]
             ELSE FirstNonEmpty(keys, e, i + 1)

\* _resolve_api_base(): ok = FALSE stands for the raised ValidationError
resolve_api_base(e) ==
    LET r == FirstNonEmpty(API_BASE_ENV_KEYS, e, 1)
    IN  IF r.ok THEN [ok |-> TRUE, value |-> rstrip(r.value, "/")]
        ELSE [ok |-> FALSE, value |-> <<>>]

resolve_bearer_token_last(e) ==
    LET set == {i \in 1..Len(TOKEN_ENV_KEYS) : strip(e[TOKEN_ENV_KEYS[i]]) # <<>>}
        last == CHOOSE i \in set : \A j \in set : j <= i
    IN  IF set = {} THEN [ok |-> FALSE, value |-> <<>>, key |-> None]
        ELSE [ok |-> TRUE, value |-> strip(e[TOKEN_ENV_KEYS[last]]),
              key |-> TOKEN_ENV_KEYS[last]]

\* _resolve_bearer_token(): ok = FALSE stands for the raised ValidationError
resolve_bearer_token(e) == FirstNonEmpty(TOKEN_ENV_KEYS, e, 1)

\* An environment in which the keys of `set` have the given values and every
\* other key is unset (os.getenv(key, "") then yields "").
EnvWith(set) == [k \in EnvKeys |-> IF k \in DOMAIN set THEN set[k] ELSE <<>>]

Blank == <<" ", " ">>

ApiBaseSettings ==
    { <<>>,
      [k \in {"FINZ_API_BASE"} |-> Blank],
      [k \in SeqRange(API_BASE_ENV_KEYS) |-> IF k = "DEV_API_URL" THEN <<>> ELSE Blank],
      [k \in {"FINZ_API_BASE", "DEV_API_URL"} |->
          IF k = "FINZ_API_BASE" THEN Blank ELSE <<" ", "u", "/", "/">>] }

TokenSettings ==
    { <<>>,
      [k \in {"AUTH_TOKEN"} |-> <<" ">>],
      [k \in SeqRange(TOKEN_ENV_KEYS) |-> IF k = "ID_TOKEN" THEN <<>> ELSE Blank],
      [k \in {"FINZ_JWT", "ID_TOKEN"} |->
          IF k = "FINZ_JWT" THEN <<" ">> ELSE <<"t", " ">>] }

\* The environments the runs start from.
Environments ==
    { EnvWith(b @@ t) : b \in ApiBaseSettings, t \in TokenSettings }

-----------------------------------------------------------------------------
(* Values *)

\* Python truthiness of an optional string
Truthy(v) == v \notin {None, ""}

\* a or b
Or(a, b) == IF Truthy(a) THEN a ELSE b

\* Identifiers the create API hands out, in the order it first uses them:
\* a response names an identifier issued earlier in the run or the next
\* unused one.
ProjectIds == <<"p1", "p2", "p3">>
BaselineIds == <<"b1", "b2", "b3">>

NoResp == [status |-> "none", kind |-> "none", data |-> <<>>]

\* dict.get on a possibly empty item
EmptyItem == [found |-> FALSE, pk |-> None, sk |-> None, project_id |-> None]
Item(pk, sk, pid) == [found |-> TRUE, pk |-> pk, sk |-> sk, project_id |-> pid]

-----------------------------------------------------------------------------
(* HTTP responses *)

Statuses == {"2xx", "3xx", "4xx", "5xx"}

Raise(e) == [raised |-> e, value |-> None]
Return(v) == [raised |-> "none", value |-> v]

raise_for_status_5xx(status) == status = "5xx"

\* requests.Response.raise_for_status(): raises HTTPError for 400 <= status < 600
raise_for_status(status) == status \in {"4xx", "5xx"}

NoProjectData == [projectId |-> None, project_id |-> None, id |-> None]
NoBaselineData == [baselineId |-> None, baseline_id |-> None]

\* Identifiers a response can name: those issued so far and the next unused one
NextIds(ids, seen) == seen \cup {ids[Cardinality(seen) + 1]}

SeenProjectIds == {created[i].project_id : i \in 1..Len(created)}
SeenBaselineIds == {created[i].baseline_id : i \in 1..Len(created)}

\* Responses without a usable JSON object: empty text, or text json() rejects
BareResponses(nodata) ==
    {[status |-> s, kind |-> k, data |-> nodata] :
        s \in Statuses, k \in {"empty", "invalid"}}

ProjectResponses ==
    LET vals == {None, ""} \cup NextIds(ProjectIds, SeenProjectIds)
    IN  BareResponses(NoProjectData) \cup
        {[status |-> s, kind |-> "object",
          data |-> [projectId |-> a, project_id |-> b, id |-> c]] :
            s \in {"2xx", "3xx"}, a \in vals, b \in vals, c \in vals}

BaselineResponses ==
    LET vals == {None, ""} \cup NextIds(BaselineIds, SeenBaselineIds)
    IN  BareResponses(NoBaselineData) \cup
        {[status |-> s, kind |-> "object",
          data |-> [baselineId |-> a, baseline_id |-> b]] :
            s \in {"2xx", "3xx"}, a \in vals, b \in vals}

TransitionResponses ==
    BareResponses(<<>>) \cup
    {[status |-> s, kind |-> "object", data |-> <<>>] : s \in {"2xx", "3xx"}}

\* resp.json() if resp.text else {}
JsonOrEmpty(r, nodata) == IF r.kind = "empty" THEN nodata ELSE r.data

create_project_unchecked(r) ==
    IF raise_for_status(r.status) THEN Raise("HTTPError")
    ELSE IF r.kind = "invalid" THEN Raise("JSONDecodeError")
    ELSE LET data == JsonOrEmpty(r, NoProjectData)
         IN  Return(Or(Or(data.projectId, data.project_id), data.id))

create_project_id_first(r) ==
    IF raise_for_status(r.status) THEN Raise("HTTPError")
    ELSE IF r.kind = "invalid" THEN Raise("JSONDecodeError")
    ELSE LET data == JsonOrEmpty(r, NoProjectData)
             pid == Or(Or(data.id, data.project_id), data.projectId)
         IN  IF ~Truthy(pid) THEN Raise("ValidationError") ELSE Return(pid)

\* create_project, from the response on: the project_id it returns, or the
\* exception it raises
create_project(r) ==
    IF raise_for_status(r.status) THEN Raise("HTTPError")
    ELSE IF r.kind = "invalid" THEN Raise("JSONDecodeError")
    ELSE LET data == JsonOrEmpty(r, NoProjectData)
             pid == Or(Or(data.projectId, data.project_id), data.id)
         IN  IF ~Truthy(pid) THEN Raise("ValidationError") ELSE Return(pid)

\* create_baseline, from the response on, and main's extraction of
\* baseline_id from its result
create_baseline(r) ==
    IF raise_for_status(r.status) THEN Raise("HTTPError")
    ELSE IF r.kind = "invalid" THEN Raise("JSONDecodeError")
    ELSE LET baseline == JsonOrEmpty(r, NoBaselineData)
             bid == Or(baseline.baselineId, baseline.baseline_id)
         IN  IF ~Truthy(bid) THEN Raise("ValidationError") ELSE Return(bid)

\* handoff_baseline and accept_baseline, from the response on
transition(r) ==
    IF raise_for_status(r.status) THEN Raise("HTTPError")
    ELSE IF r.kind = "invalid" THEN Raise("JSONDecodeError")
    ELSE Return(None)

-----------------------------------------------------------------------------
(* Initial state *)

NoAbort == [error |-> "none", at |-> "none"]

\* The documentation generator is a separate script: while the validator
\* runs it is not started.
GeneratorIdle ==
    /\ tools = [pillow |-> FALSE, python_docx |-> FALSE, pandoc_on_path |-> FALSE,
                pandoc_run |-> "none", docx2pdf |-> "missing"]
    /\ disk = <<>>
    /\ gen = [pc |-> "idle"]

Init ==
    /\ env \in Environments
    /\ pc = "start"
    /\ api_base = <<>>
    /\ token = <<>>
    /\ token_source = None
    /\ idx = 0
    /\ project_id = None
    /\ baseline_id = None
    /\ resp = NoResp
    /\ created = <<>>
    /\ results = <<>>
    /\ fetched = <<>>
    /\ calls = <<>>
    /\ store_reads = 0
    /\ output = <<>>
    /\ exit_code = NotExited
    /\ abort_cause = NoAbort
    /\ GeneratorIdle

\* An exception nobody catches: the interpreter prints the traceback on
\* stderr and the process exits with status 1.
Abort(error) ==
    /\ pc' = "aborted"
    /\ exit_code' = 1
    /\ abort_cause' = [error |-> error, at |-> pc]
    /\ resp' = NoResp

Call_swapped(op, pid, bid) ==
    [op |-> op, idx |-> idx, project_id |-> bid, baseline_id |-> pid]

\* A request as the history keeps it: the endpoint, the iteration, and the
\* identifiers its URL and payload carry
Call(op, pid, bid) ==
    [op |-> op, idx |-> idx, project_id |-> pid, baseline_id |-> bid]

Request_rollback(call, responses, next) ==
    \/ /\ calls' = Append(Append(calls, call),
                          [call EXCEPT !.op = "DELETE /projects"])
       /\ Abort("ConnectionError")
    \/ /\ calls' = Append(calls, call)
       /\ \E r \in responses : resp' = r
       /\ pc' = next
       /\ UNCHANGED <<exit_code, abort_cause>>

\* requests.Session.post/patch: the request goes out; either no response
\* arrives (timeout, connection error) or one of `responses` does.
Request(call, responses, next) ==
    /\ calls' = Append(calls, call)
    /\ \/ Abort("ConnectionError")
       \/ /\ \E r \in responses : resp' = r
          /\ pc' = next
          /\ UNCHANGED <<exit_code, abort_cause>>

-----------------------------------------------------------------------------
(* main(), lines 226-255: configuration and the provisioning loop *)

ResolveConfig ==
    /\ pc = "start"
    /\ LET b == resolve_api_base(env)
           t == resolve_bearer_token(env)
       IN  IF b.ok /\ t.ok
           THEN /\ api_base' = b.value
                /\ token' = t.value
                /\ token_source' = t.key
                /\ idx' = 1
                /\ pc' = "create_project"
                /\ UNCHANGED <<output, exit_code>>
           ELSE /\ output' = Append(output, [kind |-> "config_error"])
                /\ exit_code' = 1
                /\ pc' = "done"
                /\ UNCHANGED <<api_base, token, token_source, idx>>
    /\ UNCHANGED gen_vars
    /\ UNCHANGED <<env, project_id, baseline_id, resp, created, results,
                   fetched, calls, store_reads, abort_cause>>

PostProject ==
    /\ pc = "create_project"
    /\ Request(Call("POST /projects", None, None), ProjectResponses, "project_response")
    /\ UNCHANGED gen_vars
    /\ UNCHANGED <<env, api_base, token, token_source, idx, project_id,
                   baseline_id, created, results, fetched, store_reads, output>>

CreateProjectReturn ==
    /\ pc = "project_response"
    /\ LET r == create_project(resp)
       IN  IF r.raised # "none"
           THEN Abort(r.raised) /\ UNCHANGED project_id
           ELSE /\ project_id' = r.value
                /\ pc' = "create_baseline"
                /\ resp' = NoResp
                /\ UNCHANGED <<exit_code, abort_cause>>
    /\ UNCHANGED gen_vars
    /\ UNCHANGED <<env, api_base, token, token_source, idx, baseline_id,
                   created, results, fetched, calls, store_reads, output>>

PostBaseline ==
    /\ pc = "create_baseline"
    /\ Request(Call("POST /baseline", project_id, None), BaselineResponses, "baseline_response")
    /\ UNCHANGED gen_vars
    /\ UNCHANGED <<env, api_base, token, token_source, idx, project_id,
                   baseline_id, created, results, fetched, store_reads, output>>

CreateBaselineReturn ==
    /\ pc = "baseline_response"
    /\ LET r == create_baseline(resp)
       IN  IF r.raised # "none"
           THEN Abort(r.raised) /\ UNCHANGED baseline_id
           ELSE /\ baseline_id' = r.value
                /\ pc' = "handoff"
                /\ resp' = NoResp
                /\ UNCHANGED <<exit_code, abort_cause>>
    /\ UNCHANGED gen_vars
    /\ UNCHANGED <<env, api_base, token, token_source, idx, project_id,
                   created, results, fetched, calls, store_reads, output>>

PostHandoff ==
    /\ pc = "handoff"
    /\ Request(Call("POST /handoff", project_id, baseline_id), TransitionResponses, "handoff_response")
    /\ UNCHANGED gen_vars
    /\ UNCHANGED <<env, api_base, token, token_source, idx, project_id,
                   baseline_id, created, results, fetched, store_reads, output>>

HandoffReturn ==
    /\ pc = "handoff_response"
    /\ LET r == transition(resp)
       IN  IF r.raised # "none"
           THEN Abort(r.raised)
           ELSE /\ pc' = "accept"
                /\ resp' = NoResp
                /\ UNCHANGED <<exit_code, abort_cause>>
    /\ UNCHANGED gen_vars
    /\ UNCHANGED <<env, api_base, token, token_source, idx, project_id,
                   baseline_id, created, results, fetched, calls, store_reads,
                   output>>

PatchAccept ==
    /\ pc = "accept"
    /\ Request(Call("PATCH /accept-baseline", project_id, baseline_id),
               TransitionResponses, "accept_response")
    /\ UNCHANGED gen_vars
    /\ UNCHANGED <<env, api_base, token, token_source, idx, project_id,
                   baseline_id, created, results, fetched, store_reads, output>>

\* accept_baseline returns, the record is appended and the loop advances
AcceptReturn ==
    /\ pc = "accept_response"
    /\ LET r == transition(resp)
       IN  IF r.raised # "none"
           THEN Abort(r.raised) /\ UNCHANGED <<created, idx>>
           ELSE /\ created' = Append(created,
                        [project_id |-> project_id, baseline_id |-> baseline_id,
                         token_source |-> token_source])
                /\ idx' = IF idx < N THEN idx + 1 ELSE idx
                /\ pc' = IF idx < N THEN "create_project" ELSE "verify"
                /\ resp' = NoResp
                /\ UNCHANGED <<exit_code, abort_cause>>
    /\ UNCHANGED gen_vars
    /\ UNCHANGED <<env, api_base, token, token_source, project_id, baseline_id,
                   results, fetched, calls, store_reads, output>>

-----------------------------------------------------------------------------
(* DynamoDB reads *)

project_pk_const(pid) == "PROJECT#"

\* f"PROJECT#{project_id}"
project_pk(pid) == "PROJECT#" \o pid

\* f"BASELINE#{baseline_id}"
baseline_key(bid) == "BASELINE#" \o bid

\* The identifier of a project that is not the owner of the record read
ForeignProjectId == "p0"

\* What a stored record can carry in its project_id attribute when it is read
\* for project pid: that identifier, the identifier of another project, or
\* nothing (item.get("project_id") is then None)
FieldVals(pid) == {pid, ForeignProjectId, None}

\* table.get_item(Key={"pk": pk, "sk": sk}).get("Item", {}): no item, or the
\* item stored under that key
GetItemResults(pk, sk, fields) ==
    {EmptyItem} \cup {Item(pk, sk, f) : f \in fields}

\* The sort key of some other record stored under the project's pk
OtherSk == "BASELINE#b0"

\* table.query(Key("pk").eq(pk), Limit=20).get("Items", [])
QueryResults(pk, pid) ==
    {<<>>} \cup {<<Item(pk, OtherSk, f)>> : f \in FieldVals(pid)}

\* _fetch_project_metadata: the reads it may see, for one project_id
ProjectMetadataResults(pid) == GetItemResults(project_pk(pid), "METADATA", {pid})

\* _fetch_baseline_records, given what the two point lookups and the
\* fallback query returned
fetch_baseline_records(link_item, meta_item, query_items) ==
    [project_link |->
        IF ~link_item.found /\ query_items # <<>> THEN query_items[1]
        ELSE link_item,
     metadata |-> meta_item]

-----------------------------------------------------------------------------
(* main(), lines 257-289: the verification pass *)

MetadataNotFound == "Project metadata not found"
UnexpectedSk(sk) == "Unexpected project sk: " \o sk
LinkMismatch(a, b) ==
    "Baseline link references project " \o a \o " instead of " \o b
MetaMismatch(a, b) ==
    "Baseline metadata project_id " \o a \o " mismatches " \o b

Opt(cond, w) == IF cond THEN <<w>> ELSE <<>>

verify_warnings_twice(project_item, baseline_link, baseline_meta, pid) ==
    Opt(~project_item.found, MetadataNotFound)
    \o Opt(project_item.found /\ project_item.sk # "METADATA",
           UnexpectedSk(project_item.sk))
    \o Opt(baseline_link.found /\ baseline_link.project_id # pid,
           LinkMismatch(baseline_link.project_id, pid))
    \o Opt(baseline_meta.found /\ baseline_meta.project_id # pid,
           MetaMismatch(baseline_meta.project_id, pid))
    \o Opt(baseline_meta.found /\ baseline_meta.project_id # pid,
           MetaMismatch(baseline_meta.project_id, pid))

\* lines 264-276
verify_warnings(project_item, baseline_link, baseline_meta, pid) ==
    Opt(~project_item.found, MetadataNotFound)
    \o Opt(project_item.found /\ project_item.sk # "METADATA",
           UnexpectedSk(project_item.sk))
    \o Opt(baseline_link.found /\ baseline_link.project_id # pid,
           LinkMismatch(baseline_link.project_id, pid))
    \o Opt(baseline_meta.found /\ baseline_meta.project_id # pid,
           MetaMismatch(baseline_meta.project_id, pid))

\* lines 278-289; record.get("collisions", []) is [] because no record of
\* `created` has that key
result_entry(record, project_item, baseline_link, baseline_meta) ==
    [project_id |-> record.project_id,
     baseline_id |-> record.baseline_id,
     project_pk |-> project_item.pk,
     project_sk |-> project_item.sk,
     baseline_pk |-> Or(baseline_meta.pk, baseline_link.pk),
     baseline_sk |-> Or(baseline_meta.sk, baseline_link.sk),
     collisions |-> <<>>,
     warnings |-> verify_warnings(project_item, baseline_link, baseline_meta,
                                  record.project_id)]

\* Reads of one pass that deviate from the designed layout
Faults(f, pid) ==
    (IF f.project_item.found THEN 0 ELSE 1)
    + (IF f.link_lookup.found /\ f.link_lookup.project_id = pid THEN 0 ELSE 1)
    + (IF f.baseline_meta.found /\ f.baseline_meta.project_id = pid THEN 0 ELSE 1)

RECURSIVE FaultCount(_, _)
FaultCount(fs, recs) ==
    IF fs = <<>> THEN 0
    ELSE Faults(Head(fs), Head(recs).project_id) + FaultCount(Tail(fs), Tail(recs))

VerifyRecord ==
    /\ pc = "verify"
    /\ Len(results) < Len(created)
    /\ LET record == created[Len(results) + 1]
           pid == record.project_id
           bid == record.baseline_id
       IN  \/ /\ \E k \in 1..4 : store_reads' = store_reads + k
              /\ Abort("ClientError")
              /\ UNCHANGED <<results, fetched>>
           \/ \E project_item \in ProjectMetadataResults(pid),
                 link_item \in GetItemResults(project_pk(pid), baseline_key(bid),
                                              FieldVals(pid)),
                 meta_item \in GetItemResults(baseline_key(bid), "METADATA",
                                              FieldVals(pid)) :
              \E query_items \in (IF link_item.found THEN {<<>>}
                                  ELSE QueryResults(project_pk(pid), pid)) :
                LET got == fetch_baseline_records(link_item, meta_item, query_items)
                    seen == [project_item |-> project_item,
                             link_lookup |-> link_item,
                             queried |-> ~link_item.found,
                             query_items |-> query_items,
                             baseline_meta |-> meta_item]
                IN  /\ FaultCount(Append(fetched, seen), created) <= MaxStoreFaults
                    /\ fetched' = Append(fetched, seen)
                    /\ results' = Append(results,
                           result_entry(record, project_item, got.project_link,
                                        got.metadata))
                    /\ store_reads' = store_reads + (IF link_item.found THEN 3 ELSE 4)
                    /\ pc' = IF Len(results) + 1 = Len(created) THEN "report"
                             ELSE "verify"
                    /\ UNCHANGED <<exit_code, abort_cause, resp>>
    /\ UNCHANGED gen_vars
    /\ UNCHANGED <<env, api_base, token, token_source, idx, project_id,
                   baseline_id, created, calls, output>>

-----------------------------------------------------------------------------
(* _print_report and the end of main() *)

RECURSIVE Count(_, _)
\* Counter(...)[x]
Count(x, s) ==
    IF s = <<>> THEN 0
    ELSE (IF Head(s) = x THEN 1 ELSE 0) + Count(x, Tail(s))

RECURSIVE Keys(_)
\* Counter(...).items(): the distinct elements in order of first occurrence
Keys(s) ==
    IF s = <<>> THEN <<>>
    ELSE LET front == SubSeq(s, 1, Len(s) - 1)
             last == s[Len(s)]
         IN  IF Count(last, front) > 0 THEN Keys(front)
             ELSE Append(Keys(front), last)

Observed_all(rs) == rs

RECURSIVE Observed(_)
\* the records counted by the scan: those with r.get("project_pk")
Observed(rs) ==
    IF rs = <<>> THEN <<>>
    ELSE (IF Truthy(Head(rs).project_pk) THEN <<Head(rs)>> ELSE <<>>)
         \o Observed(Tail(rs))

all_pks(rs) == [i \in 1..Len(Observed(rs)) |-> Observed(rs)[i].project_pk]
all_pairs(rs) ==
    [i \in 1..Len(Observed(rs)) |->
        <<Observed(rs)[i].project_pk, Observed(rs)[i].project_sk>>]

duplicates_any(s) == Keys(s)

\* [k for k, count in Counter(s).items() if count > 1]
duplicates(s) == SelectSeq(Keys(s), LAMBDA k : Count(k, s) > 1)

dup_pks(rs) == duplicates(all_pks(rs))
dup_pairs(rs) == duplicates(all_pairs(rs))

EntryLines_first(rs) ==
    IF rs = <<>> THEN <<>>
    ELSE <<[kind |-> "record", entry |-> [Head(rs) EXCEPT !.warnings = <<>>]]>>

RECURSIVE EntryLines(_)
\* lines 202-210
EntryLines(rs) ==
    IF rs = <<>> THEN <<>>
    ELSE LET entry == Head(rs)
         IN  <<[kind |-> "record", entry |-> [entry EXCEPT !.warnings = <<>>]]>>
             \o (IF entry.collisions # <<>>
                 THEN <<[kind |-> "collisions", items |-> entry.collisions]>>
                 ELSE <<>>)
             \o (IF entry.warnings # <<>>
                 THEN <<[kind |-> "warnings", items |-> entry.warnings]>>
                 ELSE <<>>)
             \o EntryLines(Tail(rs))

print_report_always_pass(rs) ==
    <<[kind |-> "header"]>>
    \o EntryLines(rs)
    \o (IF dup_pks(rs) # <<>>
        THEN <<[kind |-> "dup_pks", items |-> dup_pks(rs)]>> ELSE <<>>)
    \o (IF dup_pairs(rs) # <<>>
        THEN <<[kind |-> "dup_pairs", items |-> dup_pairs(rs)]>> ELSE <<>>)
    \o <<[kind |-> "pass"]>>

\* _print_report: the lines it prints
print_report(rs) ==
    <<[kind |-> "header"]>>
    \o EntryLines(rs)
    \o (IF dup_pks(rs) # <<>>
        THEN <<[kind |-> "dup_pks", items |-> dup_pks(rs)]>> ELSE <<>>)
    \o (IF dup_pairs(rs) # <<>>
        THEN <<[kind |-> "dup_pairs", items |-> dup_pairs(rs)]>> ELSE <<>>)
    \o (IF dup_pks(rs) = <<>> /\ dup_pairs(rs) = <<>>
        THEN <<[kind |-> "pass"]>> ELSE <<>>)

PrintReport ==
    /\ pc = "report"
    /\ output' = output \o print_report(results)
    /\ pc' = "exit"
    /\ UNCHANGED gen_vars
    /\ UNCHANGED <<env, api_base, token, token_source, idx, project_id,
                   baseline_id, resp, created, results, fetched, calls,
                   store_reads, exit_code, abort_cause>>

main_return_warn(rs) ==
    IF \E i \in 1..Len(rs) : rs[i].warnings # <<>> THEN 1 ELSE 0

\* line 292: the value main() returns after the report
main_return(rs) == 0

\* sys.exit(main())
Exit ==
    /\ pc = "exit"
    /\ exit_code' = main_return(results)
    /\ pc' = "done"
    /\ UNCHANGED gen_vars
    /\ UNCHANGED <<env, api_base, token, token_source, idx, project_id,
                   baseline_id, resp, created, results, fetched, calls,
                   store_reads, output, abort_cause>>

-----------------------------------------------------------------------------

Next ==
    \/ ResolveConfig
    \/ PostProject
    \/ CreateProjectReturn
    \/ PostBaseline
    \/ CreateBaselineReturn
    \/ PostHandoff
    \/ HandoffReturn
    \/ PatchAccept
    \/ AcceptReturn
    \/ VerifyRecord
    \/ PrintReport
    \/ Exit

Spec == Init /\ [][Next]_vars

-----------------------------------------------------------------------------
(* Vocabulary of the properties *)

ResponseStates ==
    {"project_response", "baseline_response", "handoff_response", "accept_response"}

\* The report has been printed for a complete batch
Reported == pc \in {"exit", "done"} /\ Len(results) = N

Exited == exit_code # NotExited

LinesOf(kind) == SelectSeq(output, LAMBDA l : l.kind = kind)

\* The duplicate lists as the report shows them
ReportedDupPks ==
    IF LinesOf("dup_pks") = <<>> THEN <<>> ELSE LinesOf("dup_pks")[1].items
ReportedDupPairs ==
    IF LinesOf("dup_pairs") = <<>> THEN <<>> ELSE LinesOf("dup_pairs")[1].items

CollisionFound == ReportedDupPks # <<>> \/ ReportedDupPairs # <<>>

\* No action of the program can be taken any more
Halted == ~ENABLED Next

\* No request is issued twice
NoRetry ==
    \A i, j \in 1..Len(calls) :
        (calls[i].op = calls[j].op /\ calls[i].idx = calls[j].idx) => i = j

AllBlank(v) == \A i \in 1..Len(v) : v[i] = " "

\* Every candidate input of the list is unset, empty or whitespace-only
Unresolvable(keys) == \A i \in 1..Len(keys) : AllBlank(env[keys[i]])

-----------------------------------------------------------------------------
(* Properties *)

\* C1: when all calls succeed and the collision scan finds a duplicate
\* project PK or (PK, SK) pair, the process exits with a non-zero code, and
\* it exits only after the full report has been printed.
C1_CollisionExitsNonZero ==
    /\ (Exited /\ Len(results) = N) => output = print_report(results)
    /\ (pc = "done" /\ Len(results) = N /\ CollisionFound) => exit_code # 0

\* C2: if the API base URL or the bearer credential cannot be resolved,
\* main() ends with a non-zero exit code before any API call and before any
\* store read; nothing was created.
C2_ConfigErrorBeforeSideEffects ==
    (Unresolvable(API_BASE_ENV_KEYS) \/ Unresolvable(TOKEN_ENV_KEYS)) =>
        /\ calls = <<>>
        /\ store_reads = 0
        /\ created = <<>>
        /\ pc \in {"start", "done"}
        /\ pc = "done" => exit_code = 1 /\ LinesOf("config_error") # <<>>

C2_Witness ==
    /\ pc = "done"
    /\ exit_code = 1
    /\ calls = <<>>
    /\ ~Unresolvable(API_BASE_ENV_KEYS)
    /\ Unresolvable(TOKEN_ENV_KEYS)
    /\ \E k \in EnvKeys : env[k] = Blank

\* C3: a create response without any accepted identifier alias aborts the
\* run at once: the helper's return is the abort, no request follows the
\* create call that got the response, no store read is made, nothing more
\* runs, and the exit code is non-zero.
C3_MissingIdAborts ==
    /\ [][ ((pc = "project_response" /\ resp.data = NoProjectData)
            \/ (pc = "baseline_response" /\ resp.data = NoBaselineData))
           => (pc' = "aborted" /\ exit_code' = 1 /\ calls' = calls
               /\ created' = created /\ store_reads' = 0) ]_vars
    /\ [](  (pc = "aborted" /\ abort_cause.error = "ValidationError")
            => /\ Halted
               /\ exit_code = 1
               /\ store_reads = 0
               /\ Len(created) = idx - 1
               /\ calls[Len(calls)].idx = idx
               /\ calls[Len(calls)].op =
                    (IF abort_cause.at = "project_response"
                     THEN "POST /projects" ELSE "POST /baseline")  )

C3_Witness ==
    /\ pc = "aborted"
    /\ abort_cause = [error |-> "ValidationError", at |-> "project_response"]
    /\ idx = 2
    /\ Len(calls) = 5

\* C4 as stated: a non-2xx status on any of the four API calls aborts the
\* run immediately, with no further call, no store read and a non-zero exit.
C4_Non2xxAborts ==
    [][ (pc \in ResponseStates /\ resp.status # "2xx")
        => (pc' = "aborted" /\ exit_code' = 1 /\ calls' = calls
            /\ store_reads' = 0) ]_vars

\* C4 amended: a 4xx or 5xx status on any of the four API calls aborts the
\* run immediately: no further API call is issued, the failing call is not
\* retried, no store read is made, and the exit code is non-zero.
C4_ErrorStatusAborts ==
    /\ [][ (pc \in ResponseStates /\ resp.status \in {"4xx", "5xx"})
           => (pc' = "aborted" /\ exit_code' = 1 /\ calls' = calls
               /\ store_reads' = 0
               /\ abort_cause' = [error |-> "HTTPError", at |-> pc]) ]_vars
    /\ [](  (pc = "aborted" /\ abort_cause.error = "HTTPError")
            => (Halted /\ exit_code = 1 /\ store_reads = 0 /\ NoRetry
                /\ Len(created) = idx - 1)  )

C4_Witness ==
    /\ pc = "aborted"
    /\ abort_cause = [error |-> "HTTPError", at |-> "handoff_response"]
    /\ idx = 2
    /\ Len(calls) = 7

\* C5: when every API call and every store read succeeds and no collision
\* is found, the exit code is 0 whatever warnings were collected; a warning
\* never ends the run.
C5_WarningsDoNotFail ==
    /\ (pc = "done" /\ Len(results) = N /\ ~CollisionFound) => exit_code = 0
    /\ (pc = "aborted" /\ abort_cause.at = "verify")
          => abort_cause.error = "ClientError"

C5_Witness ==
    /\ pc = "done"
    /\ Len(results) = N
    /\ exit_code = 0
    /\ ~CollisionFound
    /\ Len(results[1].warnings) = 2
    /\ results[3].warnings # <<>>

Records == 1..Len(results)

\* The baseline metadata record of record i was found and carries the
\* identifier of another project
MetaMismatched(i) ==
    /\ fetched[i].baseline_meta.found
    /\ Truthy(fetched[i].baseline_meta.project_id)
    /\ fetched[i].baseline_meta.project_id # results[i].project_id

MetaMismatchTexts ==
    {MetaMismatch(a, b) : a \in SeqRange(ProjectIds) \cup {ForeignProjectId, None},
                          b \in SeqRange(ProjectIds)}

\* Number of records whose observed project PK is pk
Occurrences(pk) == Cardinality({i \in Records : results[i].project_pk = pk})
PairOccurrences(pair) ==
    Cardinality({i \in Records :
        Truthy(results[i].project_pk)
        /\ <<results[i].project_pk, results[i].project_sk>> = pair})

\* C6: a record whose baseline metadata record is present with another
\* project's identifier gets exactly one warning for it, naming both
\* identifiers, and the mismatch puts nothing on the duplicate lists: what
\* is listed there occurs at least twice as an observed project key, and
\* with distinct observed project keys both lists stay empty.
C6_MetaMismatchWarnsOnce ==
    /\ \A i \in Records :
          MetaMismatched(i) =>
            /\ Count(MetaMismatch(fetched[i].baseline_meta.project_id,
                                  results[i].project_id),
                     results[i].warnings) = 1
            /\ Cardinality({j \in 1..Len(results[i].warnings) :
                              results[i].warnings[j] \in MetaMismatchTexts}) = 1
    /\ (Reported /\ \E i \in Records : MetaMismatched(i)) =>
          /\ \A k \in 1..Len(ReportedDupPks) : Occurrences(ReportedDupPks[k]) >= 2
          /\ \A k \in 1..Len(ReportedDupPairs) :
                PairOccurrences(ReportedDupPairs[k]) >= 2
          /\ (\A i, j \in Records :
                (i # j /\ Truthy(results[i].project_pk))
                    => results[i].project_pk # results[j].project_pk)
                => ~CollisionFound

C6_Witness ==
    /\ pc = "done"
    /\ Len(results) = N
    /\ MetaMismatched(1)
    /\ MetaMismatched(2)
    /\ results[1].project_id # results[2].project_id
    /\ Len(results[1].warnings) = 1
    /\ ~CollisionFound

\* C7: when the point lookup of a baseline metadata record finds nothing,
\* the fallback range query is issued for that record, the record gets a
\* warning, and the run goes on to the report.
C7_MissingMetaTriggersFallback ==
    /\ \A i \in Records :
          ~fetched[i].baseline_meta.found =>
              (fetched[i].queried /\ results[i].warnings # <<>>)
    /\ (pc = "aborted" /\ abort_cause.at = "verify")
          => abort_cause.error # "ValidationError"

\* C8: whenever the fallback query was used for a record, that record
\* carries a warning in the report.
C8_FallbackAlwaysWarns ==
    Reported =>
        \A i \in Records :
            fetched[i].queried =>
                \E k \in 1..Len(output) :
                    /\ output[k].kind = "warnings"
                    /\ output[k].items = results[i].warnings
                    /\ output[k].items # <<>>

\* C9: the collision scan flags exactly the duplicates: a project PK is on
\* the duplicate-PK list iff at least two records observed it, a (PK, SK)
\* pair is on the duplicate-pair list iff at least two records observed it,
\* no entry is listed twice, and two records built from the same project_id
\* whose keys were observed are flagged as that PK and that pair.
C9_ScanFlagsExactlyDuplicates ==
    Reported =>
        /\ \A i \in Records :
              Truthy(results[i].project_pk) =>
                /\ (results[i].project_pk \in SeqRange(ReportedDupPks))
                      <=> (Occurrences(results[i].project_pk) >= 2)
                /\ (<<results[i].project_pk, results[i].project_sk>>
                        \in SeqRange(ReportedDupPairs))
                      <=> (PairOccurrences(<<results[i].project_pk,
                                             results[i].project_sk>>) >= 2)
        /\ \A k \in 1..Len(ReportedDupPks) :
              Truthy(ReportedDupPks[k]) /\ Occurrences(ReportedDupPks[k]) >= 2
        /\ \A k \in 1..Len(ReportedDupPairs) :
              PairOccurrences(ReportedDupPairs[k]) >= 2
        /\ Cardinality(SeqRange(ReportedDupPks)) = Len(ReportedDupPks)
        /\ Cardinality(SeqRange(ReportedDupPairs)) = Len(ReportedDupPairs)
        /\ \A i, j \in Records :
              (/\ i # j
               /\ results[i].project_id = results[j].project_id
               /\ fetched[i].project_item.found
               /\ fetched[j].project_item.found
               /\ \A m \in Records :
                     results[m].project_id = results[i].project_id
                     \/ ~fetched[m].project_item.found
                     \/ Cardinality({n \in Records :
                            results[n].project_id = results[m].project_id}) = 1)
              => /\ ReportedDupPks = <<"PROJECT#" \o results[i].project_id>>
                 /\ ReportedDupPairs =
                        << <<"PROJECT#" \o results[i].project_id, "METADATA">> >>

C9_Witness ==
    /\ pc = "done"
    /\ Len(results) = N
    /\ results[1].project_id = results[3].project_id
    /\ results[1].project_id # results[2].project_id
    /\ \A i \in Records : fetched[i].project_item.found
    /\ ReportedDupPks = <<"PROJECT#p1">>
    /\ ReportedDupPairs = << <<"PROJECT#p1", "METADATA">> >>

\* C10: if all calls succeed, the created project identifiers are pairwise
\* distinct and the store holds each project's metadata record, the results
\* hold N = 3 records with 3 distinct project PKs PROJECT#<id>, all with SK
\* METADATA, N distinct (PK, SK) pairs, the report prints the no-collision
\* confirmation and the exit code is 0.
C10_DistinctIdsPass ==
    (/\ pc = "done"
     /\ Len(created) = N
     /\ \A i, j \in 1..N : i # j => created[i].project_id # created[j].project_id
     /\ \A i \in 1..N : fetched[i].project_item.found)
    => /\ Len(results) = 3
       /\ \A i \in 1..N :
             /\ results[i].project_id = created[i].project_id
             /\ results[i].project_pk = "PROJECT#" \o created[i].project_id
             /\ results[i].project_sk = "METADATA"
       /\ Cardinality({results[i].project_pk : i \in 1..N}) = 3
       /\ Cardinality({<<results[i].project_pk, results[i].project_sk>> :
                          i \in 1..N}) = N
       /\ LinesOf("pass") = <<[kind |-> "pass"]>>
       /\ LinesOf("dup_pks") = <<>>
       /\ LinesOf("dup_pairs") = <<>>
       /\ output[Len(output)].kind = "pass"
       /\ exit_code = 0

C10_Witness ==
    /\ pc = "done"
    /\ Len(results) = N
    /\ Cardinality({created[i].project_id : i \in 1..N}) = 3
    /\ \A i \in 1..N : fetched[i].project_item.found /\ results[i].warnings = <<>>
    /\ exit_code = 0
    /\ LinesOf("pass") # <<>>

-----------------------------------------------------------------------------
(* Properties of the workflow order and of the report *)

OpOrder ==
    <<"POST /projects", "POST /baseline", "POST /handoff", "PATCH /accept-baseline">>

\* The identifiers iteration i obtained from its create calls
IterationProject(i) ==
    IF i <= Len(created) THEN created[i].project_id ELSE project_id
IterationBaseline(i) ==
    IF i <= Len(created) THEN created[i].baseline_id ELSE baseline_id

\* C11: the requests go out in the order CreateProject, CreateBaseline,
\* Handoff, AcceptBaseline for idx = 1..3, each at most once and each only
\* after the helper before it returned; baseline, handoff and accept carry
\* the project_id (and baseline_id) obtained earlier in the same iteration;
\* no store read happens before AcceptBaseline of the last iteration
\* returned.
C11_StrictOrder ==
    /\ [](  /\ Len(calls) <= 4 * N
            /\ \A k \in 1..Len(calls) :
                  /\ calls[k].op = OpOrder[((k - 1) % 4) + 1]
                  /\ calls[k].idx = ((k - 1) \div 4) + 1
                  /\ calls[k].op = "POST /projects" =>
                        calls[k].project_id = None /\ calls[k].baseline_id = None
                  /\ calls[k].op # "POST /projects" =>
                        /\ Truthy(calls[k].project_id)
                        /\ calls[k].project_id = IterationProject(calls[k].idx)
                  /\ calls[k].op = "POST /baseline" => calls[k].baseline_id = None
                  /\ calls[k].op \in {"POST /handoff", "PATCH /accept-baseline"} =>
                        /\ Truthy(calls[k].baseline_id)
                        /\ calls[k].baseline_id = IterationBaseline(calls[k].idx)
            /\ NoRetry
            /\ store_reads > 0 =>
                  (Len(created) = N /\ Len(calls) = 4 * N /\ resp = NoResp)  )
    /\ [][ calls' # calls =>
             /\ calls' = Append(calls, calls'[Len(calls')])
             /\ resp = NoResp
             /\ abort_cause = NoAbort
             /\ Len(created) = Len(calls) \div 4
             /\ store_reads = 0 ]_vars

C11_Witness ==
    /\ pc = "done"
    /\ Len(calls) = 4 * N
    /\ store_reads = 10
    /\ created[1].project_id # created[2].project_id
    /\ created[2].baseline_id # created[3].baseline_id

\* Positions of the output lines of the given kinds
PositionsOf(kinds) == {k \in 1..Len(output) : output[k].kind \in kinds}

\* C12: a report is printed only when all N iterations and all N
\* verification passes completed; it holds one line per created record, with
\* the same project_id and baseline_id and in creation order, followed by
\* the collision list or the pass confirmation; it is complete before the
\* process exits; a run ended by a configuration error or an uncaught
\* exception prints no part of it.
C12_ReportOnlyWhenComplete ==
    /\ pc = "aborted" => output = <<>>
    /\ LinesOf("config_error") # <<>> =>
          (output = <<[kind |-> "config_error"]>> /\ calls = <<>> /\ exit_code = 1)
    /\ (output # <<>> /\ LinesOf("config_error") = <<>>) =>
          /\ Len(created) = N
          /\ Len(results) = N
          /\ Len(fetched) = N
          /\ store_reads >= 3 * N
          /\ output[1].kind = "header"
          /\ Len(LinesOf("header")) = 1
          /\ Len(LinesOf("record")) = N
          /\ \A i \in 1..N :
                /\ LinesOf("record")[i].entry.project_id = created[i].project_id
                /\ LinesOf("record")[i].entry.baseline_id = created[i].baseline_id
          /\ PositionsOf({"pass", "dup_pks", "dup_pairs"}) # {}
          /\ \A a \in PositionsOf({"header", "record", "warnings", "collisions"}),
                b \in PositionsOf({"pass", "dup_pks", "dup_pairs"}) : a < b
    /\ (Exited /\ pc = "done" /\ LinesOf("config_error") = <<>>) =>
          (Len(LinesOf("record")) = N /\ PositionsOf({"pass", "dup_pks"}) # {})

C12_Witness ==
    /\ pc = "done"
    /\ Len(results) = N
    /\ created[1].project_id # created[3].project_id
    /\ created[1].baseline_id # created[2].baseline_id
    /\ Len(LinesOf("warnings")) = 2
    /\ Len(output) = 7

-----------------------------------------------------------------------------
(* Properties of the identifier aliases *)

ProjectAliases == <<"projectId", "project_id", "id">>

\* A POST /projects response whose body is a JSON object and whose status
\* raise_for_status lets pass
ObjectResponse ==
    pc = "project_response" /\ resp.kind = "object" /\ resp.status \in {"2xx", "3xx"}

\* C14 as stated: the project identifier is the value of the first alias, in
\* the order projectId, project_id, id, that is present in the response, and
\* the contract-violation error is raised only when none is present.
C14_FirstPresentAlias ==
    [][ ObjectResponse =>
          IF \E i \in 1..3 : resp.data[ProjectAliases[i]] # None
          THEN \E i \in 1..3 :
                  /\ resp.data[ProjectAliases[i]] # None
                  /\ \A j \in 1..(i - 1) : resp.data[ProjectAliases[j]] = None
                  /\ pc' = "create_baseline"
                  /\ project_id' = resp.data[ProjectAliases[i]]
          ELSE pc' = "aborted" /\ abort_cause'.error = "ValidationError" ]_vars

\* C14 amended: the project identifier is the value of the first alias, in
\* the order projectId, project_id, id, whose value is non-empty (present,
\* not null, not ""), and the contract-violation error is raised exactly
\* when no alias has a non-empty value.
C14_FirstNonEmptyAlias ==
    [][ ObjectResponse =>
          IF \E i \in 1..3 : Truthy(resp.data[ProjectAliases[i]])
          THEN \E i \in 1..3 :
                  /\ Truthy(resp.data[ProjectAliases[i]])
                  /\ \A j \in 1..(i - 1) : ~Truthy(resp.data[ProjectAliases[j]])
                  /\ pc' = "create_baseline"
                  /\ project_id' = resp.data[ProjectAliases[i]]
                  /\ exit_code' = NotExited
          ELSE /\ pc' = "aborted"
               /\ abort_cause' = [error |-> "ValidationError", at |-> pc]
               /\ project_id' = project_id ]_vars

C14_Witness ==
    /\ ObjectResponse
    /\ Len(created) = 1
    /\ resp.data.projectId = ""
    /\ resp.data.project_id = "p2"
    /\ resp.data.id = "p1"

-----------------------------------------------------------------------------
(* Properties of the requests sent to the remote system *)

\* The requests that create a resource or move it forward
CreateOps == SeqRange(OpOrder)

HasCall(op, i) == \E k \in 1..Len(calls) : calls[k].op = op /\ calls[k].idx = i

\* C15: the validator never rolls back: every step leaves the requests
\* already sent in place and adds only create/transition requests, never a
\* delete or compensating one; when a run aborts in iteration k the
\* requests that created the resources of iterations 1..k are all it sent
\* to them, and nothing is sent afterwards.
C15_NoRollback ==
    /\ [][ /\ Len(calls') >= Len(calls)
           /\ SubSeq(calls', 1, Len(calls)) = calls
           /\ \A k \in (Len(calls) + 1)..Len(calls') : calls'[k].op \in CreateOps
           /\ \/ created' = created
              \/ /\ Len(created') = Len(created) + 1
                 /\ SubSeq(created', 1, Len(created)) = created
         ]_vars
    /\ [](  pc = "aborted" =>
              /\ Halted
              /\ \A k \in 1..Len(calls) : calls[k].op \in CreateOps
              /\ \A i \in 1..idx : HasCall("POST /projects", i)
              /\ \A i \in 1..Len(created) : \A o \in CreateOps : HasCall(o, i)
              /\ NoRetry  )

C15_Witness ==
    /\ pc = "aborted"
    /\ idx = 3
    /\ abort_cause = [error |-> "ConnectionError", at |-> "accept"]
    /\ Len(created) = 2
    /\ Len(calls) = 12

-----------------------------------------------------------------------------
(* Properties of the report's outcome lines *)

\* No project key was observed by two records
NoKeyObservedTwice ==
    \A i \in Records :
        Truthy(results[i].project_pk) =>
            /\ Occurrences(results[i].project_pk) = 1
            /\ PairOccurrences(<<results[i].project_pk, results[i].project_sk>>) = 1

\* C16: every printed report has exactly one of the two outcomes: the pass
\* confirmation is printed iff both duplicate lists are empty, otherwise at
\* least one non-empty collision list is printed; never both, never neither.
C16_ExactlyOneOutcome ==
    Reported =>
        /\ Len(LinesOf("pass")) <= 1
        /\ Len(LinesOf("dup_pks")) <= 1
        /\ Len(LinesOf("dup_pairs")) <= 1
        /\ (LinesOf("pass") # <<>>) <=> NoKeyObservedTwice
        /\ (LinesOf("pass") # <<>>) <=>
              (LinesOf("dup_pks") = <<>> /\ LinesOf("dup_pairs") = <<>>)
        /\ \A k \in PositionsOf({"dup_pks", "dup_pairs"}) : output[k].items # <<>>

C16_Witness ==
    /\ pc = "exit"
    /\ Len(results) = N
    /\ LinesOf("pass") = <<>>
    /\ Len(LinesOf("dup_pairs")) = 1
    /\ ~fetched[1].project_item.found
    /\ results[2].project_pk = results[3].project_pk

\* Records whose project metadata record was found
WithMetadata == {i \in Records : fetched[i].project_item.found}

\* C18: a record whose project metadata was not found is left out of both
\* frequency counts: it gets the 'Project metadata not found' warning, its
\* absent key is never listed as a duplicate, only records with metadata
\* make up a listed duplicate, and when at most one record has metadata the
\* pass confirmation is printed.
C18_MissingMetadataNotCounted ==
    Reported =>
        /\ \A i \in Records \ WithMetadata :
              /\ results[i].project_pk = None
              /\ Count(MetadataNotFound, results[i].warnings) = 1
              /\ \E k \in PositionsOf({"warnings"}) :
                    output[k].items = results[i].warnings
        /\ \A k \in 1..Len(ReportedDupPks) :
              /\ ReportedDupPks[k] # None
              /\ Cardinality({i \in WithMetadata :
                     results[i].project_pk = ReportedDupPks[k]}) >= 2
        /\ \A k \in 1..Len(ReportedDupPairs) :
              /\ ReportedDupPairs[k][1] # None
              /\ Cardinality({i \in WithMetadata :
                     <<results[i].project_pk, results[i].project_sk>>
                        = ReportedDupPairs[k]}) >= 2
        /\ Cardinality(WithMetadata) <= 1 =>
              (LinesOf("pass") = <<[kind |-> "pass"]>> /\ ~CollisionFound)

C18_Witness ==
    /\ pc = "done"
    /\ Len(results) = N
    /\ WithMetadata = {}
    /\ results[1].project_id = results[2].project_id
    /\ results[2].project_id = results[3].project_id
    /\ LinesOf("pass") # <<>>
    /\ exit_code = 0

-----------------------------------------------------------------------------
(* Configuration resolution on its own: main() up to line 232, started in  *)
(* every combination of unset, blank and padded values of the keys.        *)

\* One visible character per key, so that a resolved value names its key
ApiMarks == <<"a", "b", "c", "d">>
TokenMarks == <<"1", "2", "3", "4", "5", "6", "7">>

\* Values of the i-th API base key: unset or empty, whitespace only, a bare
\* slash, a padded URL with a trailing slash, a clean URL
ApiBaseValues ==
    [i \in 1..Len(API_BASE_ENV_KEYS) |->
        << <<>>, <<" ">>, <<"/">>, <<" ", ApiMarks[i], "/", " ">>, <<ApiMarks[i]>> >>]

\* Values of the i-th token key: unset or empty, whitespace only, padded token
TokenValues ==
    [i \in 1..Len(TOKEN_ENV_KEYS) |->
        << <<>>, <<" ", " ">>, <<" ", TokenMarks[i], " ">> >>]

IndexOf(keys, k) == CHOOSE i \in 1..Len(keys) : keys[i] = k

\* Every assignment of one of `values` to each of `keys`
Assignments(keys, values) ==
    { [k \in SeqRange(keys) |-> values[IndexOf(keys, k)][f[IndexOf(keys, k)]]] :
      f \in [1..Len(keys) -> 1..Len(values[1])] }

ResolveEnvironments ==
    { EnvWith(b @@ t) :
        b \in Assignments(API_BASE_ENV_KEYS, ApiBaseValues), t \in TokenSettings }
    \cup
    { EnvWith(b @@ t) :
        b \in ApiBaseSettings, t \in Assignments(TOKEN_ENV_KEYS, TokenValues) }

InitResolve ==
    /\ env \in ResolveEnvironments
    /\ pc = "start"
    /\ api_base = <<>>
    /\ token = <<>>
    /\ token_source = None
    /\ idx = 0
    /\ project_id = None
    /\ baseline_id = None
    /\ resp = NoResp
    /\ created = <<>>
    /\ results = <<>>
    /\ fetched = <<>>
    /\ calls = <<>>
    /\ store_reads = 0
    /\ output = <<>>
    /\ exit_code = NotExited
    /\ abort_cause = NoAbort
    /\ GeneratorIdle

NextResolve == ResolveConfig

SpecResolve == InitResolve /\ [][NextResolve]_vars

-----------------------------------------------------------------------------
(* Properties of configuration resolution *)

Resolved == pc = "create_project"
ConfigError == pc = "done" /\ exit_code = 1 /\ output = <<[kind |-> "config_error"]>>

\* Positions of the names of `keys` whose value is non-empty, non-blank
First(S) == CHOOSE i \in S : \A j \in S : i <= j

NonEmpty(v) == v # <<>>
NonBlank(v) == \E j \in 1..Len(v) : v[j] # " "
NonEmptyAt(keys) == {i \in 1..Len(keys) : NonEmpty(env[keys[i]])}
NonBlankAt(keys) == {i \in 1..Len(keys) : NonBlank(env[keys[i]])}

\* r is v without its trailing run of c
WithoutTrailing(r, v, c) ==
    /\ Len(r) <= Len(v)
    /\ r = SubSeq(v, 1, Len(r))
    /\ \A j \in Len(r) + 1..Len(v) : v[j] = c
    /\ r # <<>> => r[Len(r)] # c

\* r is v without its leading run of c
WithoutLeading(r, v, c) ==
    /\ Len(r) <= Len(v)
    /\ r = SubSeq(v, Len(v) - Len(r) + 1, Len(v))
    /\ \A j \in 1..Len(v) - Len(r) : v[j] = c
    /\ r # <<>> => r[1] # c

\* The contiguous parts of v
Parts(v) == {SubSeq(v, a, b) : a \in 1..Len(v) + 1, b \in 0..Len(v)}

\* r is v without the whitespace around it
Trimmed(r, v) ==
    \E k \in 0..Len(v) :
        /\ WithoutTrailing(SubSeq(v, 1, k), v, " ")
        /\ WithoutLeading(r, SubSeq(v, 1, k), " ")

\* C13 as stated: each of the two settings takes the value of the first name
\* of its list whose value is non-empty, and resolution fails exactly when a
\* list has no name with a non-empty value.
C13_FirstNonEmptyValue ==
    pc # "start" =>
        LET A == NonEmptyAt(API_BASE_ENV_KEYS)
            T == NonEmptyAt(TOKEN_ENV_KEYS)
        IN  /\ ConfigError <=> (A = {} \/ T = {})
            /\ Resolved =>
                  /\ api_base = env[API_BASE_ENV_KEYS[First(A)]]
                  /\ token = env[TOKEN_ENV_KEYS[First(T)]]
                  /\ token_source = TOKEN_ENV_KEYS[First(T)]

\* C13, amended: each of the two settings takes the first name of its list
\* whose value has a character other than whitespace, and is that value
\* without the whitespace around it (the API base also without its trailing
\* slashes, which may leave it empty); a later name never overrides an
\* earlier such name, and resolution fails exactly when a list has no name
\* with a non-whitespace character.
C13_FirstNonBlankTrimmed ==
    pc # "start" =>
        LET A == NonBlankAt(API_BASE_ENV_KEYS)
            T == NonBlankAt(TOKEN_ENV_KEYS)
        IN  /\ Resolved \/ ConfigError
            /\ ConfigError <=> (A = {} \/ T = {})
            /\ Resolved =>
                  /\ \E v \in Parts(env[API_BASE_ENV_KEYS[First(A)]]) :
                        /\ Trimmed(v, env[API_BASE_ENV_KEYS[First(A)]])
                        /\ WithoutTrailing(api_base, v, "/")
                  /\ Trimmed(token, env[TOKEN_ENV_KEYS[First(T)]])
                  /\ token_source = TOKEN_ENV_KEYS[First(T)]

C13_Witness ==
    /\ Resolved
    /\ env["FINZ_API_BASE"] = <<" ">>
    /\ env["VITE_API_BASE_URL"] = <<" ", "b", "/", " ">>
    /\ env["DEV_API_URL"] = <<"c">>
    /\ api_base = <<"b">>
    /\ token_source = "ID_TOKEN"

-----------------------------------------------------------------------------
(* generate_phase5_docs.py: files and locals *)

\* create_screenshot_placeholders: filenames
filenames ==
    << "phase5_todos_above_fold.png",
       "phase5_budget_pill_en_meta.png",
       "phase5_budget_pill_en_riesgo.png",
       "phase5_budget_pill_sobre_presupuesto.png",
       "phase5_collapsed_sections.png",
       "phase5_expanded_portfolio_summary.png",
       "phase5_full_page_scroll.png",
       "phase5_single_above_fold.png",
       "phase5_single_full_layout.png",
       "phase5_before_after_todos.png" >>

docx_path == "PHASE5_VISUAL_GUIDE.docx"
pdf_path == "PHASE5_VISUAL_GUIDE.pdf"

Paths == SeqRange(filenames) \cup {docx_path, pdf_path}

\* Largest number of placeholders in one run history whose drawing raises
MaxDrawErrors == 2

\* Largest number of times the placeholders are created in a row
MaxRuns == 2

exists_never(p) == FALSE

\* Path.exists()
exists(p) == disk[p] # "absent"

\* Path.write_bytes, Image.save, Document.save, a converter's output file
write(p, content) == [disk EXCEPT ![p] = content]

\* The locals of the generator, main() standing at `at`
GenLocals(at) ==
    [pc |-> at, run |-> 1, i |-> 1, draw_errors |-> 0, pdf_success |-> FALSE,
     attempts |-> <<>>, files_created |-> <<>>, printed |-> <<>>,
     exit_code |-> NotExited, raised |-> None]

\* The validator is a separate script: while the generator runs it is not
\* started.
ValidatorIdle ==
    /\ env = EnvWith(<<>>)
    /\ pc = "start"
    /\ api_base = <<>>
    /\ token = <<>>
    /\ token_source = None
    /\ idx = 0
    /\ project_id = None
    /\ baseline_id = None
    /\ resp = NoResp
    /\ created = <<>>
    /\ results = <<>>
    /\ fetched = <<>>
    /\ calls = <<>>
    /\ store_reads = 0
    /\ output = <<>>
    /\ exit_code = NotExited
    /\ abort_cause = NoAbort

-----------------------------------------------------------------------------
(* create_screenshot_placeholders, lines 403-438 *)

\* The screenshots directory holds any subset of the placeholders, each put
\* there by somebody else; Pillow is installed or not.
InitPlaceholders ==
    /\ ValidatorIdle
    /\ tools \in [pillow : BOOLEAN, python_docx : {TRUE}, pandoc_on_path : {FALSE},
                  pandoc_run : {"none"}, docx2pdf : {"missing"}]
    /\ disk \in {[p \in Paths |-> IF p \in S THEN "user" ELSE "absent"] :
                   S \in SUBSET SeqRange(filenames)}
    /\ gen = GenLocals("placeholders")

\* One iteration of "for fn in filenames"
CreatePlaceholder ==
    /\ gen.pc = "placeholders"
    /\ LET fn == filenames[gen.i]
           next == [gen EXCEPT !.i = @ + 1,
                               !.pc = IF gen.i = Len(filenames) THEN "returned" ELSE @]
           created_as(kind, content) ==
               /\ disk' = write(fn, content)
               /\ gen' = [next EXCEPT !.printed = Append(@, [kind |-> kind, fn |-> fn]),
                                      !.draw_errors =
                                          IF kind = "empty_placeholder_error"
                                          THEN @ + 1 ELSE @]
       IN  IF exists(fn)
           THEN gen' = next /\ UNCHANGED disk
           ELSE IF ~tools.pillow
           THEN created_as("empty_placeholder_no_pillow", "empty")
           ELSE \/ created_as("placeholder", "png")
                \/ /\ gen.draw_errors < MaxDrawErrors
                   /\ created_as("empty_placeholder_error", "empty")
    /\ UNCHANGED <<tools, validator_vars>>

\* create_screenshot_placeholders is called again on the same directory
CallAgain ==
    /\ gen.pc = "returned"
    /\ gen.run < MaxRuns
    /\ gen' = [gen EXCEPT !.pc = "placeholders", !.i = 1, !.run = @ + 1]
    /\ UNCHANGED <<tools, disk, validator_vars>>

NextPlaceholders ==
    \/ CreatePlaceholder
    \/ CallAgain

SpecPlaceholders == InitPlaceholders /\ [][NextPlaceholders]_vars

-----------------------------------------------------------------------------
(* convert_docx_to_pdf, lines 524-553, and main(), lines 626-651 *)

\* main() stands before step 3, the placeholders being in place; python-docx,
\* pandoc and docx2pdf are installed or not and behave in any way; a DOCX or
\* a PDF of an earlier run may be there.
InitPdf ==
    /\ ValidatorIdle
    /\ tools \in [pillow : {TRUE}, python_docx : BOOLEAN, pandoc_on_path : BOOLEAN,
                  pandoc_run : {"ok", "CalledProcessError", "OSError"},
                  docx2pdf : {"missing", "ok", "error"}]
    /\ disk \in {[p \in Paths |-> IF p \in SeqRange(filenames) THEN "png"
                                  ELSE IF p \in S THEN "user" ELSE "absent"] :
                   S \in SUBSET {docx_path, pdf_path}}
    /\ gen = GenLocals("create_docx")

printed_with(line) == [gen EXCEPT !.printed = Append(@, line)]

\* main(), step 3: create_docx raises when python-docx is missing
CreateDocx ==
    /\ gen.pc = "create_docx"
    /\ IF tools.python_docx
       THEN /\ disk' = write(docx_path, "docx")
            /\ gen' = [gen EXCEPT !.files_created = Append(@, docx_path),
                                  !.pc = "which"]
       ELSE /\ gen' = [printed_with([kind |-> "docx_failed"]) EXCEPT
                          !.exit_code = 1, !.pc = "exited"]
            /\ UNCHANGED disk
    /\ UNCHANGED <<tools, validator_vars>>

\* if shutil.which("pandoc")
Which ==
    /\ gen.pc = "which"
    /\ gen' = IF tools.pandoc_on_path THEN [gen EXCEPT !.pc = "pandoc"]
              ELSE [printed_with([kind |-> "pandoc_not_found"]) EXCEPT !.pc = "docx2pdf"]
    /\ UNCHANGED <<tools, disk, validator_vars>>

\* subprocess.check_call(cmd, stderr=subprocess.PIPE): pandoc exits with 0,
\* exits with another status (CalledProcessError, the one exception caught),
\* or cannot be started (OSError)
RunPandoc ==
    /\ gen.pc = "pandoc"
    /\ LET tried == [gen EXCEPT !.attempts = Append(@, "pandoc")]
       IN  CASE tools.pandoc_run = "ok" ->
                  /\ disk' = write(pdf_path, "pdf")
                  /\ gen' = [tried EXCEPT
                                !.printed = Append(@, [kind |-> "pdf_via_pandoc"]),
                                !.pdf_success = TRUE, !.pc = "pdf_check"]
             [] tools.pandoc_run = "CalledProcessError" ->
                  /\ gen' = [tried EXCEPT
                                !.printed = Append(@, [kind |-> "pandoc_failed"]),
                                !.pc = "docx2pdf"]
                  /\ UNCHANGED disk
             [] tools.pandoc_run = "OSError" ->
                  /\ gen' = [tried EXCEPT !.raised = "OSError", !.exit_code = 1,
                                          !.pc = "aborted"]
                  /\ UNCHANGED disk
    /\ UNCHANGED <<tools, validator_vars>>

\* the docx2pdf fallback
Docx2Pdf ==
    /\ gen.pc = "docx2pdf"
    /\ LET tried == [gen EXCEPT !.attempts = Append(@, "docx2pdf"), !.pc = "pdf_check"]
       IN  CASE tools.docx2pdf = "ok" ->
                  /\ disk' = write(pdf_path, "pdf")
                  /\ gen' = [tried EXCEPT
                                !.printed = Append(@, [kind |-> "pdf_via_docx2pdf"]),
                                !.pdf_success = TRUE]
             [] tools.docx2pdf = "missing" ->
                  /\ gen' = [tried EXCEPT
                                !.printed = Append(@, [kind |-> "docx2pdf_not_installed"])]
                  /\ UNCHANGED disk
             [] tools.docx2pdf = "error" ->
                  /\ gen' = [tried EXCEPT
                                !.printed = Append(@, [kind |-> "docx2pdf_failed"])]
                  /\ UNCHANGED disk
    /\ UNCHANGED <<tools, validator_vars>>

\* main(), step 4: if pdf_success and pdf_path.exists()
PdfCheck ==
    /\ gen.pc = "pdf_check"
    /\ gen' = IF gen.pdf_success /\ exists(pdf_path)
              THEN [gen EXCEPT !.files_created = Append(@, pdf_path), !.pc = "summary"]
              ELSE [printed_with([kind |-> "pdf_not_generated"]) EXCEPT !.pc = "summary"]
    /\ UNCHANGED <<tools, disk, validator_vars>>

\* main(), step 5: print_summary(files_created, repo_root)
PrintSummary ==
    /\ gen.pc = "summary"
    /\ gen' = [printed_with([kind |-> "summary", files |-> gen.files_created,
                      git_add_pdf |-> exists(pdf_path)])
                  EXCEPT !.exit_code = 0, !.pc = "done"]
    /\ UNCHANGED <<tools, disk, validator_vars>>

NextPdf ==
    \/ CreateDocx
    \/ Which
    \/ RunPandoc
    \/ Docx2Pdf
    \/ PdfCheck
    \/ PrintSummary

SpecPdf == InitPdf /\ [][NextPdf]_vars

-----------------------------------------------------------------------------
(* Properties of the PDF conversion *)

ConversionOver == gen.pc \in {"pdf_check", "summary", "done", "aborted"}
PandocSucceeded == "pandoc" \in SeqRange(gen.attempts) /\ tools.pandoc_run = "ok"
Docx2PdfSucceeded == "docx2pdf" \in SeqRange(gen.attempts) /\ tools.docx2pdf = "ok"

\* C17: convert_docx_to_pdf tries pandoc first whenever it is on PATH and
\* the docx2pdf fallback only when pandoc is absent or failed; it returns
\* True exactly when one of the converters succeeded and otherwise returns
\* False without ever raising, and main() then still prints its summary,
\* without the PDF.
C17_ConversionNeverRaises ==
    ConversionOver =>
        /\ gen.raised = None
        /\ gen.attempts # <<>>
        /\ tools.pandoc_on_path <=> gen.attempts[1] = "pandoc"
        /\ "docx2pdf" \in SeqRange(gen.attempts) =>
              (~tools.pandoc_on_path \/ tools.pandoc_run # "ok")
        /\ gen.pdf_success <=> (PandocSucceeded \/ Docx2PdfSucceeded)
        /\ gen.pc = "done" =>
              /\ gen.exit_code = 0
              /\ gen.printed[Len(gen.printed)].kind = "summary"
              /\ ~gen.pdf_success =>
                    pdf_path \notin SeqRange(gen.printed[Len(gen.printed)].files)

\* The same without the clause on raising: what the conversion does when
\* pandoc, once found, can be started
C17_ConversionWhenPandocStarts ==
    (ConversionOver /\ gen.raised = None) =>
        /\ gen.attempts # <<>>
        /\ tools.pandoc_on_path <=> gen.attempts[1] = "pandoc"
        /\ gen.pdf_success <=> (PandocSucceeded \/ Docx2PdfSucceeded)

-----------------------------------------------------------------------------
(* Properties of the placeholders *)

Placeholders == SeqRange(filenames)

\* The line the step printed, if it printed one
Printed(old, new) ==
    IF Len(new.printed) > Len(old.printed)
    THEN new.printed[Len(new.printed)] ELSE [kind |-> "none", fn |-> None]

RenderFailures == {"empty_placeholder_no_pillow", "empty_placeholder_error"}

\* C19: create_screenshot_placeholders never overwrites: a file that is
\* there is left as it is, when the call returns all 10 placeholders are
\* there, a second call changes nothing, and a placeholder that could not be
\* rendered (Pillow missing or a drawing error) is left as an empty file
\* while the call goes on.
C19_PlaceholdersNeverOverwrite ==
    [][ /\ \A p \in Paths : disk[p] # "absent" => disk'[p] = disk[p]
        /\ gen'.pc = "returned" =>
              /\ gen.i = Len(filenames)
              /\ \A p \in Placeholders : disk'[p] # "absent"
        /\ gen.run >= 2 => disk' = disk
        /\ (gen.pc = "placeholders" /\ disk[filenames[gen.i]] = "absent") =>
              /\ tools.pillow <=> Printed(gen, gen').kind # "empty_placeholder_no_pillow"
              /\ Printed(gen, gen').fn = filenames[gen.i]
              /\ disk'[filenames[gen.i]] =
                    IF Printed(gen, gen').kind \in RenderFailures THEN "empty" ELSE "png"
        /\ gen'.raised = None /\ gen'.exit_code = NotExited
      ]_vars

C19_Witness ==
    /\ gen.pc = "returned"
    /\ gen.run = 2
    /\ tools.pillow
    /\ disk[filenames[1]] = "user"
    /\ disk[filenames[2]] = "empty"
    /\ disk[filenames[3]] = "png"
    /\ disk[filenames[10]] = "empty"

====
